---- MODULE Spec2Model ----
(***************************************************************************)
(* NewsFeedSolo: the recommendation server (src/src/server.js) on top of   *)
(* the database module (src/unnamed/part_003, lines 1-853, database.js).   *)
(*                                                                         *)
(* Units.  Time is counted in weeks (7 days).  Every weight and score is a *)
(* fixed-point number in thousandths (0.2 is 200, -3.0 is -3000); the      *)
(* transcendental functions of the code (Math.exp, Math.sqrt, Math.pow)    *)
(* are tabulated in thousandths over the ages and counts the bounds allow. *)
(* A NULL view_count reads as 0 everywhere in the code (COALESCE, `|| 0`,  *)
(* null < 5), so it is stored as 0.                                        *)
(***************************************************************************)
EXTENDS Integers, Sequences, FiniteSets

\* ------------------------------------------------------------- bounds
MaxArticles == 3
MaxInteractions == 2
MaxViews == 2
MaxNow == 1
MaxRequests == 2
MaxKeywords == 2

\* -------------------------------------------------- program constants
KEYWORD_MATCH_WEIGHT == 400
CATEGORY_WEIGHT == 200
SOURCE_WEIGHT == 200
RECENCY_WEIGHT == 200
KEYWORD_PROFILE_MIN_WEIGHT == 200
VIEW_FATIGUE_FACTOR == 200
THUMBS_UP_WEIGHT == 5000
THUMBS_DOWN_WEIGHT == -3000
CLICK_WEIGHT == 1000
JUST_IN_BOOST_WEIGHT == 5000
JUST_IN_MIN_KEYWORD_MATCHES == 2
JUST_IN_MAX_VIEWS == 5
\* twoWeeksAgo.setDate(getDate() - 14): the candidate window, in weeks
CANDIDATE_WINDOW == 2
\* const { limit = 30 } / options.limit ? ... : 30
DEFAULT_LIMIT == 30
\* const { limit = 5 } of GET /api/articles/:id/similar
DEFAULT_SIMILAR_LIMIT == 5

\* ['click', 'thumbs_up', 'thumbs_down'].includes(type)
InteractionTypes == {"click", "thumbs_up", "thumbs_down"}
\* what a client may send as `type`: a valid literal, an unknown one, nothing
RequestTypes == InteractionTypes \cup {"share", "undefined"}

\* Columns the code reads and writes but initializeDatabase's CREATE TABLE
\* statements do not create; CREATE TABLE IF NOT EXISTS keeps an existing
\* table as it is, so whether they exist is a fact of the database file.
ExtraColumns == {"view_count", "metadata"}

\* tags stored in the case the model wrote them in
keepCase(tag) == tag

\* String.prototype.toLowerCase on the tags the model answers with
toLowerCase(tag) ==
    CASE tag = "K1" -> "k1"
      [] tag = "K2" -> "k2"
      [] tag = "K3" -> "k3"
      [] OTHER -> tag

\* extractArticleKeywords: the names of tags.map(tag => ({name:
\* tag.toLowerCase(), ...})), in the order of the tags, nothing removed
extractArticleKeywords(tags) == [i \in 1..Len(tags) |-> toLowerCase(tags[i])]

\* the tags the model answered with for each item of the feed
FeedTags == << <<"K1", "k2">>, << >>, <<"k1", "K2">>, <<"k2", "K3">> >>

\* The feed the collector walks, in order (index.js processes the articles
\* of a feed one at a time).  published_at is whatever the feed carried,
\* keywords what storeArticle got from the keyword extractor.
Feed ==
    << [guid |-> "g1", feed_title |-> "s1", feed_category |-> "c1",
        published_at |-> 0, keywords |-> extractArticleKeywords(FeedTags[1])],
       [guid |-> "g2", feed_title |-> "s2", feed_category |-> "c2",
        published_at |-> -1, keywords |-> extractArticleKeywords(FeedTags[2])],
       [guid |-> "g3", feed_title |-> "s1", feed_category |-> "c1",
        published_at |-> 0, keywords |-> extractArticleKeywords(FeedTags[3])],
       [guid |-> "g4", feed_title |-> "s2", feed_category |-> "c1",
        published_at |-> -2, keywords |-> extractArticleKeywords(FeedTags[4])] >>

\* ------------------------------------------------------------ helpers
Range(s) == {s[i] : i \in 1..Len(s)}

Min(a, b) == IF a <= b THEN a ELSE b

Max(a, b) == IF a >= b THEN a ELSE b

\* every order in which storage may hand back the rows of s
RowOrders(s) ==
    LET n == Len(s)
        P == {p \in [1..n -> 1..n] : \A i, j \in 1..n : p[i] = p[j] => i = j}
    IN  {[i \in 1..n |-> s[p[i]]] : p \in P}

RECURSIVE KeepIndices(_, _, _)
\* Array.prototype.filter: the elements of s at the indices K, from index i on
KeepIndices(s, K, i) ==
    IF i > Len(s) THEN << >>
    ELSE (IF i \in K THEN <<s[i]>> ELSE << >>) \o KeepIndices(s, K, i + 1)

\* Array.prototype.slice(from, to) with 0 <= from, on 0-based ranks
Slice(s, from, to) ==
    IF to <= from THEN << >> ELSE SubSeq(s, from + 1, Min(to, Len(s)))

\* Math.exp(-daysSinceInteraction / INTERACTION_DECAY_DAYS), age in weeks
ExpDecay30(age) ==
    CASE age <= -2 -> 1595
      [] age = -1 -> 1263
      [] age = 0 -> 1000
      [] age = 1 -> 792
      [] age = 2 -> 627
      [] age = 3 -> 497
      [] age = 4 -> 393
      [] age = 5 -> 311
      [] age = 6 -> 247
      [] OTHER -> 195

\* Math.exp(-daysSincePublished / 7), age in weeks
ExpDecay7(age) ==
    CASE age <= -2 -> 7389
      [] age = -1 -> 2718
      [] age = 0 -> 1000
      [] age = 1 -> 368
      [] age = 2 -> 135
      [] age = 3 -> 50
      [] age = 4 -> 18
      [] age = 5 -> 7
      [] age = 6 -> 2
      [] OTHER -> 1

\* Math.sqrt(n)
Sqrt(n) ==
    CASE n <= 1 -> 1000
      [] n = 2 -> 1414
      [] n = 3 -> 1732
      [] n = 4 -> 2000
      [] n = 5 -> 2236
      [] n = 6 -> 2449
      [] n = 7 -> 2646
      [] n = 8 -> 2828
      [] OTHER -> 3000

\* Math.pow(viewCount, 1.5)
Pow15(v) ==
    CASE v <= 0 -> 0
      [] v = 1 -> 1000
      [] v = 2 -> 2828
      [] v = 3 -> 5196
      [] v = 4 -> 8000
      [] v = 5 -> 11180
      [] v = 6 -> 14697
      [] v = 7 -> 18520
      [] v = 8 -> 22627
      [] v = 9 -> 27000
      [] OTHER -> 31623

\* ---------------------------------------------------- profile builder
\* A JavaScript Map is a sequence of entries in insertion order.
MapHas(m, k) == \E i \in 1..Len(m) : m[i].name = k

\* map.get(k) || 0
MapGet(m, k) ==
    IF MapHas(m, k) THEN (CHOOSE e \in Range(m) : e.name = k).weight ELSE 0

\* map.set(k, w): an existing key keeps its place, a new one goes last
MapSet(m, k, w) ==
    IF MapHas(m, k)
    THEN [i \in 1..Len(m) |-> IF m[i].name = k THEN [name |-> k, weight |-> w]
                              ELSE m[i]]
    ELSE Append(m, [name |-> k, weight |-> w])

\* map.delete(k)
MapDelete(m, k) == KeepIndices(m, {i \in 1..Len(m) : m[i].name # k}, 1)

\* a created_at text that `new Date(...)` turns into an Invalid Date
InvalidDate == -1000000

\* the number NaN: Date.now() - (Invalid Date), and all arithmetic on it
NaN == 1000000000

\* a + b
Plus(a, b) == IF a = NaN \/ b = NaN THEN NaN ELSE a + b

\* value || 0: NaN is falsy
OrZero(value) == IF value = NaN THEN 0 ELSE value

\* the rows of `article_interactions ai JOIN articles a ON ai.article_id = a.id`
JoinedRows(inter, arts) ==
    LET kept == KeepIndices(inter,
                    {i \in 1..Len(inter) : inter[i].article_id \in DOMAIN arts}, 1)
    IN  [i \in 1..Len(kept) |->
            [id |-> kept[i].article_id,
             keywords |-> arts[kept[i].article_id].keywords,
             feed_title |-> arts[kept[i].article_id].feed_title,
             feed_category |-> arts[kept[i].article_id].feed_category,
             interaction_type |-> kept[i].interaction_type,
             created_at |-> kept[i].created_at]]

\* a keywords text JSON.parse rejects (or one that is not an array, so
\* that forEach is not a function): the column holds a list otherwise
MalformedKeywords == <<"[">>

\* try { JSON.parse(keywords || '[]') ... } catch (e) { console.error }:
\* the list the forEach walks, none when the parse throws
ParseKeywords(keywords) ==
    IF keywords = MalformedKeywords THEN << >> ELSE keywords

\* switch (interaction.interaction_type): no case matches an unknown type
BaseWeight(type) ==
    CASE type = "thumbs_up" -> THUMBS_UP_WEIGHT
      [] type = "thumbs_down" -> THUMBS_DOWN_WEIGHT
      [] type = "click" -> CLICK_WEIGHT
      [] OTHER -> 0

\* weight = baseWeight * decayFactor; an Invalid Date makes the decay NaN
\* without throwing
InteractionWeight(type, created_at, clock) ==
    IF created_at = InvalidDate THEN NaN
    ELSE (BaseWeight(type) * ExpDecay30(clock - created_at)) \div 1000

\* the body of keywords.forEach: keep a positive running total, delete the rest
AddKeywordWeight(m, keyword, weight) ==
    LET newWeight == Plus(OrZero(MapGet(m, keyword)), weight)
    IN  IF newWeight # NaN /\ newWeight > 0 THEN MapSet(m, keyword, newWeight)
        ELSE MapDelete(m, keyword)

RECURSIVE AddKeywordWeights(_, _, _)
AddKeywordWeights(m, keywords, weight) ==
    IF keywords = << >> THEN m
    ELSE AddKeywordWeights(AddKeywordWeight(m, Head(keywords), weight),
                           Tail(keywords), weight)

\* a body that treats sources and categories like keywords: a total that
\* is not positive is removed
ProcessInteractionPositiveOnly(profile, row, clock) ==
    LET weight == InteractionWeight(row.interaction_type, row.created_at, clock)
    IN  [sources |-> AddKeywordWeight(profile.sources, row.feed_title, weight),
         categories |-> AddKeywordWeight(profile.categories, row.feed_category, weight),
         keywords |-> AddKeywordWeights(profile.keywords,
                                        ParseKeywords(row.keywords), weight)]

\* a body that parses the keywords before it touches the source and the
\* category, so that the outer catch skips a malformed row whole
ProcessInteractionParseFirst(profile, row, clock) ==
    LET weight == InteractionWeight(row.interaction_type, row.created_at, clock)
    IN  IF row.keywords = MalformedKeywords THEN profile
        ELSE [sources |-> MapSet(profile.sources, row.feed_title,
                  Plus(OrZero(MapGet(profile.sources, row.feed_title)), weight)),
              categories |-> MapSet(profile.categories, row.feed_category,
                  Plus(OrZero(MapGet(profile.categories, row.feed_category)),
                       weight)),
              keywords |-> AddKeywordWeights(profile.keywords, row.keywords,
                                             weight)]

\* the body of interactions.forEach
ProcessInteraction(profile, row, clock) ==
    LET weight == InteractionWeight(row.interaction_type, row.created_at, clock)
    IN  [sources |-> MapSet(profile.sources, row.feed_title,
                Plus(OrZero(MapGet(profile.sources, row.feed_title)), weight)),
         categories |-> MapSet(profile.categories, row.feed_category,
                Plus(OrZero(MapGet(profile.categories, row.feed_category)), weight)),
         keywords |-> AddKeywordWeights(profile.keywords,
                                        ParseKeywords(row.keywords), weight)]

RECURSIVE ProcessInteractions(_, _, _)
ProcessInteractions(profile, rows, clock) ==
    IF rows = << >> THEN profile
    ELSE ProcessInteractions(ProcessInteraction(profile, Head(rows), clock),
                             Tail(rows), clock)

\* one step of the stable sort (a, b) => b[1] - a[1]: e goes behind every
\* entry that is not lighter than it; a NaN difference compares as equal
InsertByWeight(sorted, e) ==
    LET ahead == Cardinality({i \in 1..Len(sorted) :
                                 \/ sorted[i].weight = NaN
                                 \/ e.weight = NaN
                                 \/ sorted[i].weight >= e.weight})
    IN  SubSeq(sorted, 1, ahead) \o <<e>> \o SubSeq(sorted, ahead + 1, Len(sorted))

RECURSIVE SortByWeight(_)
SortByWeight(m) ==
    IF m = << >> THEN << >>
    ELSE InsertByWeight(SortByWeight(SubSeq(m, 1, Len(m) - 1)), m[Len(m)])

\* the threshold filter unplugged
sortMapByWeightNoFilter(m) == SortByWeight(m)

\* sort descending by weight, then .filter(item => item.weight >= MIN_WEIGHT)
sortMapByWeight(m) ==
    LET sorted == SortByWeight(m)
    IN  KeepIndices(sorted,
            {i \in 1..Len(sorted) :
                /\ sorted[i].weight # NaN
                /\ sorted[i].weight >= KEYWORD_PROFILE_MIN_WEIGHT}, 1)

EmptyProfile == [keywords |-> << >>, sources |-> << >>, categories |-> << >>]

\* buildKeywordProfile over the joined rows in the order storage returned them
buildKeywordProfile(rows, clock) ==
    LET profile == ProcessInteractions(EmptyProfile, rows, clock)
    IN  [keywords |-> sortMapByWeight(profile.keywords),
         sources |-> sortMapByWeight(profile.sources),
         categories |-> sortMapByWeight(profile.categories)]

\* ----------------------------------------------------- article scorer
\* the correlated subquery `direct_interaction_score` of the candidate query;
\* julianday of an unparseable text is NULL, and SUM skips a NULL term
DirectInteractionScore(id, inter, clock) ==
    LET own == KeepIndices(inter,
                   {i \in 1..Len(inter) :
                       /\ inter[i].article_id = id
                       /\ inter[i].created_at # InvalidDate}, 1)
        sum[i \in 0..Len(own)] ==
            IF i = 0 THEN 0
            ELSE sum[i - 1] + InteractionWeight(own[i].interaction_type,
                                                own[i].created_at, clock)
    IN  sum[Len(own)]

\* a boost without the view cap: negative past JUST_IN_MAX_VIEWS
JustInBoostNoViewCap(viewCount, keywordMatchCount) ==
    IF keywordMatchCount >= JUST_IN_MIN_KEYWORD_MATCHES
    THEN (JUST_IN_BOOST_WEIGHT * (JUST_IN_MAX_VIEWS - viewCount))
            \div JUST_IN_MAX_VIEWS
    ELSE 0

\* 6. "Just in" BOOST: JUST_IN_BOOST_WEIGHT * (1 - viewCount / JUST_IN_MAX_VIEWS)
JustInBoost(viewCount, keywordMatchCount) ==
    IF viewCount < JUST_IN_MAX_VIEWS
       /\ keywordMatchCount >= JUST_IN_MIN_KEYWORD_MATCHES
    THEN (JUST_IN_BOOST_WEIGHT * (JUST_IN_MAX_VIEWS - viewCount))
            \div JUST_IN_MAX_VIEWS
    ELSE 0

\* a penalty that stops growing at -1
ViewFatigueScoreCapped(viewCount) ==
    IF viewCount > 0
    THEN Max(-1000, -((Pow15(viewCount) * VIEW_FATIGUE_FACTOR) \div 1000))
    ELSE 0

\* 7. View fatigue: -Math.pow(viewCount, 1.5) * VIEW_FATIGUE_FACTOR
ViewFatigueScore(viewCount) ==
    IF viewCount > 0 THEN -((Pow15(viewCount) * VIEW_FATIGUE_FACTOR) \div 1000)
    ELSE 0

\* a total that is clamped at zero
TotalScoreClamped(scores) ==
    Max(0, scores.keywordScore + scores.sourceScore + scores.categoryScore
           + scores.recencyScore + scores.interactionScore + scores.justInBoost
           + scores.viewFatigueScore)

\* const totalScore = keywordScore + sourceScore + ... + viewFatigueScore
TotalScore(scores) ==
    scores.keywordScore + scores.sourceScore + scores.categoryScore
    + scores.recencyScore + scores.interactionScore + scores.justInBoost
    + scores.viewFatigueScore

\* scoreArticle(article, profile): the seven components and their total
scoreArticle(article, profile, clock) ==
    LET keywords == ParseKeywords(article.keywords)
        weightOf(i) == MapGet(profile.keywords, keywords[i])
        sum[i \in 0..Len(keywords)] ==
            IF i = 0 THEN 0 ELSE sum[i - 1] + weightOf(i)
        keywordMatchCount == Cardinality({i \in 1..Len(keywords) : weightOf(i) # 0})
        normalized == IF Len(keywords) > 0
                      THEN (sum[Len(keywords)] * 1000) \div Sqrt(Len(keywords))
                      ELSE sum[Len(keywords)]
        keywordScore == (normalized * KEYWORD_MATCH_WEIGHT) \div 1000
        sourceScore ==
            (MapGet(profile.sources, article.feed_title) * SOURCE_WEIGHT) \div 1000
        categoryScore ==
            (MapGet(profile.categories, article.feed_category) * CATEGORY_WEIGHT)
                \div 1000
        recencyScore ==
            (ExpDecay7(clock - article.published_at) * RECENCY_WEIGHT) \div 1000
        interactionScore == article.direct_interaction_score
        justInBoost == JustInBoost(article.view_count, keywordMatchCount)
        viewFatigueScore == ViewFatigueScore(article.view_count)
        scores == [keywordScore |-> keywordScore,
                   sourceScore |-> sourceScore,
                   categoryScore |-> categoryScore,
                   recencyScore |-> recencyScore,
                   interactionScore |-> interactionScore,
                   justInBoost |-> justInBoost,
                   viewFatigueScore |-> viewFatigueScore,
                   keywordMatchCount |-> keywordMatchCount]
    IN  [keywordScore |-> keywordScore,
         sourceScore |-> sourceScore,
         categoryScore |-> categoryScore,
         recencyScore |-> recencyScore,
         interactionScore |-> interactionScore,
         justInBoost |-> justInBoost,
         viewFatigueScore |-> viewFatigueScore,
         keywordMatchCount |-> keywordMatchCount,
         totalScore |-> TotalScore(scores)]

\* ------------------------------------------ recommendation orchestrator
\* the orders `ORDER BY published_at DESC` may return the rows `ids` in:
\* rows with the same published_at come in any order
OrderByPublishedDesc(ids, arts) ==
    LET n == Cardinality(ids)
    IN  {s \in [1..n -> ids] :
            /\ \A i, j \in 1..n : s[i] = s[j] => i = j
            /\ \A i \in 1..n, j \in 1..n :
                  i < j => arts[s[i]].published_at >= arts[s[j]].published_at}

\* one row of `SELECT a.*, (...) as direct_interaction_score FROM articles a`
ArticleRow(id, arts, views, inter, clock) ==
    [id |-> id,
     feed_title |-> arts[id].feed_title,
     feed_category |-> arts[id].feed_category,
     published_at |-> arts[id].published_at,
     keywords |-> arts[id].keywords,
     view_count |-> views[id],
     direct_interaction_score |-> DirectInteractionScore(id, inter, clock)]

\* articles.map(article => ({...article, final_score: scores.totalScore}))
ScoredRow(row, profile, clock) ==
    [id |-> row.id,
     view_count |-> row.view_count,
     published_at |-> row.published_at,
     final_score |-> scoreArticle(row, profile, clock).totalScore]

\* one step of the stable sort (a, b) => b.final_score - a.final_score
InsertByScore(sorted, r) ==
    LET ahead == Cardinality({i \in 1..Len(sorted) :
                                 sorted[i].final_score >= r.final_score})
    IN  SubSeq(sorted, 1, ahead) \o <<r>> \o SubSeq(sorted, ahead + 1, Len(sorted))

RECURSIVE SortByScore(_)
\* scoredArticles.sort((a, b) => b.final_score - a.final_score)
SortByScore(rows) ==
    IF rows = << >> THEN << >>
    ELSE InsertByScore(SortByScore(SubSeq(rows, 1, Len(rows) - 1)), rows[Len(rows)])

\* if (!profile || profile.keywords.length === 0): the recency fallback
TakesFallback(profile) == profile.keywords = << >>

\* the list getRecommendedArticles slices.  byDate is the order in which
\* ORDER BY published_at DESC returns the whole table; the scored branch
\* keeps the rows with published_at > twoWeeksAgo.
RankedList(profile, byDate, arts, views, inter, clock) ==
    IF TakesFallback(profile)
    THEN [i \in 1..Len(byDate) |->
             [id |-> byDate[i], view_count |-> views[byDate[i]],
              published_at |-> arts[byDate[i]].published_at]]
    ELSE LET cand == KeepIndices(byDate,
                        {i \in 1..Len(byDate) :
                            arts[byDate[i]].published_at > clock - CANDIDATE_WINDOW}, 1)
         IN  SortByScore([i \in 1..Len(cand) |->
                 ScoredRow(ArticleRow(cand[i], arts, views, inter, clock),
                           profile, clock)])

\* options.limit ? parseInt(options.limit) : 30
EffectiveLimit(limit) == IF limit # 0 THEN limit ELSE DEFAULT_LIMIT

\* getRecommendedArticles({limit, offset}) with the handle open, from the
\* list it ranked
getRecommendedArticles(limit, offset, ranked) ==
    Slice(ranked, offset, offset + EffectiveLimit(limit))

\* -------------------------------------------------- similarity engine
\* sourceKeywords.filter(keyword => targetKeywords.includes(keyword)).length
MatchingKeywords(sourceKeywords, targetKeywords) ==
    Cardinality({i \in 1..Len(sourceKeywords) :
                    sourceKeywords[i] \in Range(targetKeywords)})

\* matching / Math.sqrt(source.length * Math.max(target.length, 1))
SimilarityScore(sourceKeywords, targetKeywords) ==
    (MatchingKeywords(sourceKeywords, targetKeywords) * 1000 * 1000)
        \div Sqrt(Len(sourceKeywords) * Max(Len(targetKeywords), 1))

\* the correlated subquery `interaction_score` of the similar-articles query
RawInteractionScore(id, inter) ==
    LET own == KeepIndices(inter, {i \in 1..Len(inter) : inter[i].article_id = id}, 1)
        sum[i \in 0..Len(own)] ==
            IF i = 0 THEN 0 ELSE sum[i - 1] + BaseWeight(own[i].interaction_type)
    IN  sum[Len(own)]

\* the score getSimilarArticles gives a target for a source: a source
\* without keywords is answered [] before any score is computed
similarity(sourceKeywords, targetKeywords) ==
    IF sourceKeywords = << >> THEN 0
    ELSE SimilarityScore(sourceKeywords, targetKeywords)

\* a sort on the similarity alone, the interaction term forgotten
InsertBySimilarity(sorted, r) ==
    LET ahead == Cardinality({i \in 1..Len(sorted) :
                                 sorted[i].similarity_score >= r.similarity_score})
    IN  SubSeq(sorted, 1, ahead) \o <<r>> \o SubSeq(sorted, ahead + 1, Len(sorted))

\* one step of the stable sort (a, b) => b.combined_score - a.combined_score
InsertByCombined(sorted, r) ==
    LET ahead == Cardinality({i \in 1..Len(sorted) :
                                 sorted[i].combined_score >= r.combined_score})
    IN  SubSeq(sorted, 1, ahead) \o <<r>> \o SubSeq(sorted, ahead + 1, Len(sorted))

RECURSIVE SortByCombined(_)
SortByCombined(rows) ==
    IF rows = << >> THEN << >>
    ELSE InsertByCombined(SortByCombined(SubSeq(rows, 1, Len(rows) - 1)),
                          rows[Len(rows)])

\* getSimilarArticles(articleId, limit) with the handle open
getSimilarArticles(articleId, limit, byDate, arts, views, inter, clock) ==
    IF articleId \notin DOMAIN arts THEN << >>
    ELSE IF ParseKeywords(arts[articleId].keywords) = << >> THEN << >>
    ELSE
      LET src == arts[articleId]
          cand == KeepIndices(byDate,
                    {i \in 1..Len(byDate) :
                        /\ byDate[i] # articleId
                        /\ arts[byDate[i]].feed_category = src.feed_category
                        /\ arts[byDate[i]].published_at > clock - CANDIDATE_WINDOW}, 1)
          scored == [i \in 1..Len(cand) |->
                      [id |-> cand[i],
                       view_count |-> views[cand[i]],
                       matching |-> MatchingKeywords(src.keywords,
                                                     arts[cand[i]].keywords),
                       similarity_score |-> SimilarityScore(src.keywords,
                                                     arts[cand[i]].keywords),
                       combined_score |->
                           SimilarityScore(src.keywords, arts[cand[i]].keywords)
                           + (RawInteractionScore(cand[i], inter) * 100) \div 1000]]
          matched == KeepIndices(scored,
                        {i \in 1..Len(scored) : scored[i].matching > 0}, 1)
      IN  Slice(SortByCombined(matched), 0, limit)

VARIABLES
    now,           \* the clock, in weeks
    columns,       \* which of ExtraColumns the database file has
    db,            \* database.js's module-level handle: unset, opening, open
    articles,      \* table articles: row id |-> row
    view_count,    \* column articles.view_count: row id |-> count
    interactions,  \* table article_interactions, in rowid order
    pending,       \* handlers suspended at their `await`, with their rows
    served         \* history: row id |-> number of responses that served it

vars == <<now, columns, db, articles, view_count, interactions, pending, served>>

\* --------------------------------------------------------- the server
Ids == 1..Len(articles)

\* what a client may put in :id -- a stored row or one past the last
RequestIds == 1..(MaxArticles + 1)

\* what a client may put in ?limit= and ?offset= of GET /api/recommendations
RequestLimits == {0, 1, 2, DEFAULT_LIMIT}

RequestOffsets == {0, 1, MaxArticles}

\* `if (!db) initializeDatabase();` without await: the asynchronous function
\* runs up to its first `await fs.mkdir(...)` and returns; the handle is
\* assigned only when that resumes
StartInitialization == db' = IF db = "unset" THEN "opening" ELSE db

RECURSIVE SumOf(_)
SumOf(s) == IF s = << >> THEN 0 ELSE Head(s) + SumOf(Tail(s))

\* the serves the suspended handlers are about to count
PendingServes == SumOf([i \in 1..Len(pending) |-> Len(pending[i].ids)])

\* the model's cap on the serves of a run: n more fit
CanServe(n) == SumOf(view_count) + PendingServes + n <= MaxViews

\* articles.map(article => article.id)
RowIds(rows) == [k \in 1..Len(rows) |-> rows[k].id]

RemoveAt(s, i) == SubSeq(s, 1, i - 1) \o SubSeq(s, i + 1, Len(s))

\* a transaction that runs the statement for the first id only
updateTransactionFirstOnly(views, ids) ==
    [id \in DOMAIN views |->
        IF ids # << >> /\ ids[1] = id THEN views[id] + 1 ELSE views[id]]

\* updateTransaction(articles.map(article => article.id)): for each id,
\* UPDATE articles SET view_count = COALESCE(view_count, 0) + 1 WHERE id = ?
updateTransaction(views, ids) ==
    [id \in DOMAIN views |->
        views[id] + Cardinality({k \in 1..Len(ids) : ids[k] = id})]

\* a failed batch whose first statement stays applied
rollbackKeepingFirst(views, ids) == updateTransactionFirstOnly(views, ids)

\* db.transaction(...) rolls the whole batch back when a statement throws
rollback(views, ids) == views

\* the UPDATE without its WHERE clause
incrementEveryViewCount(views, id) == [a \in DOMAIN views |-> views[a] + 1]

\* UPDATE articles SET view_count = COALESCE(view_count, 0) + 1 WHERE id = ?
incrementViewCount(views, id) == [views EXCEPT ![id] = views[id] + 1]

\* the lists getRecommendedArticles may slice in this state, one for each
\* order storage may return the interaction rows and the tied articles in
RankedLists ==
    {RankedList(buildKeywordProfile(rows, now), byDate, articles, view_count,
                interactions, now) :
        rows \in RowOrders(JoinedRows(interactions, articles)),
        byDate \in OrderByPublishedDesc(Ids, articles)}

\* the pages GET /api/recommendations may compute in this state
RecommendationPages ==
    LET lists == RankedLists
    IN  {RowIds(getRecommendedArticles(limit, offset, ranked)) :
            limit \in RequestLimits, offset \in RequestOffsets, ranked \in lists}

\* the lists GET /api/articles/:id/similar may compute in this state
SimilarPages ==
    {RowIds(getSimilarArticles(id, limit, byDate, articles, view_count,
                               interactions, now)) :
        id \in RequestIds, limit \in {1, DEFAULT_SIMILAR_LIMIT},
        byDate \in OrderByPublishedDesc(Ids, articles)}

Init ==
    /\ now = 0
    /\ columns \in SUBSET ExtraColumns
    /\ db = "unset"
    /\ articles = << >>
    /\ view_count = << >>
    /\ interactions = << >>
    /\ pending = << >>
    /\ served = << >>

\* time passes
Tick ==
    /\ now < MaxNow
    /\ now' = now + 1
    /\ UNCHANGED <<columns, db, articles, view_count, interactions, pending, served>>

\* the `await fs.mkdir` of initializeDatabase resumes: db = new Database(...)
InitializeComplete ==
    /\ db = "opening"
    /\ db' = "open"
    /\ UNCHANGED <<now, columns, articles, view_count, interactions, pending, served>>

\* the collector stores the next article of the feed; the row's view_count
\* is NULL
StoreArticle ==
    /\ Len(articles) < MaxArticles
    /\ Len(articles) < Len(Feed)
    /\ articles' = Append(articles, Feed[Len(articles) + 1])
    /\ view_count' = Append(view_count, 0)
    /\ served' = Append(served, 0)
    /\ UNCHANGED <<now, columns, db, interactions, pending>>

\* a rewrite of the stored row (INSERT OR REPLACE), which loses its count
storeDuplicateReplacing(views, id) == [views EXCEPT ![id] = 0]

\* storeArticle on a guid that is stored already: `guid TEXT UNIQUE` makes
\* the INSERT throw, storeArticle catches, and the stored row stays as it is
storeDuplicate(views, id) == views

\* the collector meets an article of the feed again
StoreDuplicate(id) ==
    /\ id \in Ids
    /\ view_count' = storeDuplicate(view_count, id)
    /\ UNCHANGED <<now, columns, db, articles, interactions, pending, served>>

\* GET /api/articles: getArticles awaits initializeDatabase and reads
ListArticles ==
    /\ StartInitialization
    /\ UNCHANGED <<now, columns, articles, view_count, interactions, pending, served>>

\* the status GET /api/articles/:id answers with, on the server's own handle
GetArticleByIdStatus(id) ==
    IF id \notin Ids THEN 404
    ELSE IF "view_count" \notin columns THEN 500
    ELSE 200

\* GET /api/articles/:id
GetArticleById(id) ==
    /\ id \in Ids => CanServe(1)
    /\ IF GetArticleByIdStatus(id) = 200
       THEN /\ view_count' = incrementViewCount(view_count, id)
            /\ served' = [served EXCEPT ![id] = served[id] + 1]
       ELSE UNCHANGED <<view_count, served>>
    /\ UNCHANGED <<now, columns, db, articles, interactions, pending>>

\* a handler up to its `await`: on an unset handle the database function
\* starts the initialization, throws on `db.prepare`, catches and returns []
CallAndSuspend(op, pages) ==
    /\ Len(pending) < MaxRequests
    /\ StartInitialization
    /\ \E ids \in (IF db = "open" THEN pages ELSE {<< >>}) :
          /\ CanServe(Len(ids))
          /\ pending' = Append(pending, [op |-> op, ids |-> ids])
    /\ UNCHANGED <<now, columns, articles, view_count, interactions, served>>

\* GET /api/recommendations up to `await getRecommendedArticles(...)`
RecommendationsCall == CallAndSuspend("recommendations", RecommendationPages)

\* GET /api/articles/:id/similar up to `await getSimilarArticles(...)`
SimilarCall == CallAndSuspend("similar", SimilarPages)

\* the status a suspended handler answers with: preparing the UPDATE throws
\* without the column, and the transaction throws when the database is locked
ServeStatus(ids, busy) ==
    IF ids = << >> THEN 200
    ELSE IF "view_count" \notin columns \/ busy THEN 500
    ELSE 200

\* the view-count transaction of a suspended handler
ServeRows(op, i, busy) ==
    LET ids == pending[i].ids
    IN  /\ pending[i].op = op
        /\ pending' = RemoveAt(pending, i)
        /\ IF ids = << >> \/ "view_count" \notin columns
           THEN UNCHANGED <<view_count, served>>
           ELSE IF busy
           THEN view_count' = rollback(view_count, ids) /\ UNCHANGED served
           ELSE /\ view_count' = updateTransaction(view_count, ids)
                /\ served' = [id \in DOMAIN served |->
                                 IF id \in Range(ids) THEN served[id] + 1
                                 ELSE served[id]]
        /\ UNCHANGED <<now, columns, db, articles, interactions>>

\* GET /api/recommendations after the await
RecommendationsRespond(i, busy) == ServeRows("recommendations", i, busy)

\* GET /api/articles/:id/similar after the await
SimilarRespond(i, busy) == ServeRows("similar", i, busy)

\* an insert that replaces the article's earlier interaction
trackInsertReplacing(inter, articleId, type, clock) ==
    Append(KeepIndices(inter,
               {i \in 1..Len(inter) : inter[i].article_id # articleId}, 1),
           [article_id |-> articleId, interaction_type |-> type,
            created_at |-> clock])

\* INSERT INTO article_interactions (article_id, interaction_type, metadata);
\* created_at DEFAULT (strftime(..., 'now'))
trackInsert(inter, articleId, type, clock) ==
    Append(inter, [article_id |-> articleId, interaction_type |-> type,
                   created_at |-> clock])

\* a boundary check that lets every type through
validTypeAny(type) == TRUE

\* ['click', 'thumbs_up', 'thumbs_down'].includes(type)
validType(type) == type \in InteractionTypes

\* an INSERT that no foreign key guards
trackSucceedsWithoutForeignKey(articleId) ==
    /\ db = "open"
    /\ "view_count" \in columns
    /\ "metadata" \in columns

\* whether trackInteraction(articleId, type) returns {success: true}: the
\* handle must be open, both prepared statements must compile against the
\* schema, and the foreign key must hold
trackSucceeds(articleId) ==
    /\ db = "open"
    /\ "view_count" \in columns
    /\ "metadata" \in columns
    /\ articleId \in Ids

\* the status POST /api/articles/:id/interaction answers with
PostInteractionStatus(id, type) ==
    IF ~validType(type) THEN 400
    ELSE IF ~trackSucceeds(id) THEN 500
    ELSE 200

\* POST /api/articles/:id/interaction
PostInteraction(id, type) ==
    /\ IF ~validType(type)
       THEN UNCHANGED <<db, interactions>>
       ELSE /\ StartInitialization
            /\ IF trackSucceeds(id)
               THEN /\ Len(interactions) < MaxInteractions
                    /\ interactions' = trackInsert(interactions, id, type, now)
               ELSE UNCHANGED interactions
    /\ UNCHANGED <<now, columns, articles, view_count, pending, served>>

\* buildKeywordProfile has no try/catch around `if (!db) initializeDatabase();
\* db.prepare(...)`: until the handle is assigned, db.prepare throws a
\* TypeError out of the function
buildKeywordProfileThrows == db # "open"

\* the status GET /api/profile answers with: the handler catches the throw
GetProfileStatus == IF buildKeywordProfileThrows THEN 500 ELSE 200

\* GET /api/profile
GetProfile ==
    /\ StartInitialization
    /\ UNCHANGED <<now, columns, articles, view_count, interactions, pending, served>>

Next ==
    \/ Tick
    \/ InitializeComplete
    \/ StoreArticle
    \/ \E id \in RequestIds : StoreDuplicate(id)
    \/ ListArticles
    \/ \E id \in RequestIds : GetArticleById(id)
    \/ RecommendationsCall
    \/ \E i \in 1..Len(pending), busy \in BOOLEAN : RecommendationsRespond(i, busy)
    \/ SimilarCall
    \/ \E i \in 1..Len(pending), busy \in BOOLEAN : SimilarRespond(i, busy)
    \/ \E id \in RequestIds, type \in RequestTypes : PostInteraction(id, type)
    \/ GetProfile

Spec == Init /\ [][Next]_vars

\* ------------------------------------------- the similarity engine alone
\* the keyword lists extractArticleKeywords may store: the tags of the
\* model's answer, lower-cased, in its order, repeated tags kept
KeywordLists ==
    UNION {[1..n -> {"k1", "k2"}] : n \in 0..MaxKeywords}

\* a server with its handle open on a database that holds three articles
\* and at most one interaction with the second or the third
SimInit ==
    /\ now = 0
    /\ columns = ExtraColumns
    /\ db = "open"
    /\ \E kw1 \in KeywordLists, kw2 \in KeywordLists, c3 \in {"c1", "c2"} :
          articles =
            <<[guid |-> "g1", feed_title |-> "s1", feed_category |-> "c1",
               published_at |-> 0, keywords |-> kw1],
              [guid |-> "g2", feed_title |-> "s2", feed_category |-> "c1",
               published_at |-> -1, keywords |-> kw2],
              [guid |-> "g3", feed_title |-> "s1", feed_category |-> c3,
               published_at |-> 0, keywords |-> <<"k1">>]>>
    /\ view_count = <<0, 0, 0>>
    /\ interactions \in
          {<< >>} \cup {<<[article_id |-> id, interaction_type |-> type,
                          created_at |-> 0]>> :
                           id \in {2, 3}, type \in InteractionTypes}
    /\ pending = << >>
    /\ served = <<0, 0, 0>>

SimNext ==
    \/ SimilarCall
    \/ \E i \in 1..Len(pending), busy \in BOOLEAN : SimilarRespond(i, busy)

SimSpec == SimInit /\ [][SimNext]_vars
\* ---------------------------------------------- the profile builder alone
\* the rows article_interactions may hold for buildKeywordProfile to read:
\* interaction_type and created_at are unconstrained TEXT columns
RecordRows ==
    [article_id : 1..3,
     interaction_type : InteractionTypes \cup {"share"},
     created_at : {0, -1, InvalidDate}]

\* a server with its handle open on a database that holds the first three
\* articles of the feed and up to MaxInteractions interaction rows; the
\* keywords column of the third article is TEXT that may not parse
RecordInit ==
    /\ now = 0
    /\ columns = ExtraColumns
    /\ db = "open"
    /\ articles \in {SubSeq(Feed, 1, 3),
                     [SubSeq(Feed, 1, 3) EXCEPT ![3].keywords = MalformedKeywords]}
    /\ view_count = <<0, 0, 0>>
    /\ interactions \in UNION {[1..n -> RecordRows] : n \in 0..MaxInteractions}
    /\ pending = << >>
    /\ served = <<0, 0, 0>>

RecordNext ==
    \/ Tick
    \/ GetProfile

RecordSpec == RecordInit /\ [][RecordNext]_vars

\* ------------------------------------------------------ the scorer alone
MaxViewCount == 6

\* interactions with the first two articles; created_at is the text the
\* column default wrote from the host's clock at the time, read back by
\* `new Date(...)` against Date.now()
ScoreRows ==
    [article_id : 1..2, interaction_type : InteractionTypes, created_at : {0, 1}]

\* a server with its handle open on a database that holds the first three
\* articles of the feed, the first one served up to MaxViewCount times, the
\* second one published when its feed said (pubDate is the feed's word)
ScoreInit ==
    /\ now = 0
    /\ columns = ExtraColumns
    /\ db = "open"
    /\ articles \in {[SubSeq(Feed, 1, 3) EXCEPT ![2].published_at = p] :
                        p \in {-1, 1}}
    /\ view_count \in {<<v, 0, 0>> : v \in 0..MaxViewCount}
    /\ interactions \in UNION {[1..n -> ScoreRows] : n \in 0..MaxInteractions}
    /\ pending = << >>
    /\ served = view_count

ScoreNext ==
    \/ Tick
    \/ RecommendationsCall
    \/ \E i \in 1..Len(pending), busy \in BOOLEAN : RecommendationsRespond(i, busy)

ScoreSpec == ScoreInit /\ [][ScoreNext]_vars

\* ------------------------------------------------------------- claims
\* the rows a profile build reads, in every order storage may return them
ProfileInputs == RowOrders(JoinedRows(interactions, articles))

\* C1: a get-recommendations request that answers with a page P adds exactly
\* 1 to the stored view_count of every article of P and leaves every other
\* view_count as it was; computing the page changes no view_count.
C1_PageViewCounts ==
    [][/\ (/\ Len(pending') = Len(pending) + 1
           /\ pending'[Len(pending')].op = "recommendations")
          => view_count' = view_count
       /\ \A i \in 1..Len(pending), busy \in BOOLEAN :
            (/\ Len(pending') < Len(pending)
             /\ ServeStatus(pending[i].ids, busy) = 200
             /\ RecommendationsRespond(i, busy))
            => \A a \in Ids :
                  view_count'[a] = view_count[a]
                      + (IF a \in Range(pending[i].ids) THEN 1 ELSE 0)]_vars

\* a recommendations handler holds a page with some but not all of the
\* stored articles, one of which has been served before
C1_Witness ==
    \E i \in 1..Len(pending) :
        /\ pending[i].op = "recommendations"
        /\ "view_count" \in columns
        /\ \E a \in Range(pending[i].ids) : view_count[a] = 1
        /\ \E b \in Ids : b \notin Range(pending[i].ids)

\* C2: under every interleaving of concurrent requests no increment is lost
\* and a page's increments are applied all or none: the stored view_count of
\* an article is its initial value plus the number of answered requests that
\* served it, and a failed batch leaves nothing behind.
C2_NoLostIncrement == \A a \in Ids : view_count[a] = served[a]

\* one of two overlapping recommendations requests has been answered while
\* the other is still suspended
C2_Witness ==
    \E i \in 1..Len(pending), a \in Ids :
        /\ pending[i].op = "recommendations"
        /\ a \in Range(pending[i].ids)
        /\ served[a] = 1
        /\ view_count[a] = 1

\* C3: no operation lowers or resets the stored view_count of an article.
C3_ViewCountMonotone ==
    [][/\ Len(view_count') >= Len(view_count)
       /\ \A a \in Ids : view_count'[a] >= view_count[a]]_vars

\* an article has been served twice, and the collector meets it again
C3_Witness == \E a \in Ids : view_count[a] = 2

\* C4: interactions are append-only: every step keeps the persisted rows as
\* they are, in place, and at most appends to them.
C4_AppendOnly ==
    [][/\ Len(interactions') >= Len(interactions)
       /\ SubSeq(interactions', 1, Len(interactions)) = interactions]_vars

\* a second interaction with the same article was appended after the first
C4_Witness ==
    /\ Len(interactions) = 2
    /\ interactions[1].article_id = interactions[2].article_id

\* C5: a post-interaction whose type is not click, thumbs_up or thumbs_down
\* (a missing type included) is answered 400 and persists nothing: no stored
\* interaction has an invalid type.
C5_InvalidTypeRejected ==
    /\ \A id \in RequestIds, type \in RequestTypes \ InteractionTypes :
          PostInteractionStatus(id, type) = 400
    /\ \A i \in 1..Len(interactions) :
          interactions[i].interaction_type \in InteractionTypes

\* a server that accepts a click on article 1, and has stored one, refuses
\* the unknown and the missing type
C5_Witness ==
    /\ PostInteractionStatus(1, "click") = 200
    /\ PostInteractionStatus(1, "share") = 400
    /\ PostInteractionStatus(1, "undefined") = 400
    /\ Len(interactions) >= 1

\* C6: a post-interaction with a valid type on an existing article persists
\* exactly one new row (articleId, type), and no persisted row is missing
\* from the rows a later profile build reads.
C6_ValidInteractionPersisted ==
    [][/\ \A id \in Ids, type \in InteractionTypes :
            PostInteraction(id, type)
            => interactions' = Append(interactions,
                   [article_id |-> id, interaction_type |-> type,
                    created_at |-> now])
       /\ Len(JoinedRows(interactions', articles')) = Len(interactions')]_vars

\* ProcessInteractions with no keyword ever deleted: the net weights
NetWeight(keyword, rows, clock) ==
    LET carrying == KeepIndices(rows,
                        {i \in 1..Len(rows) : keyword \in Range(rows[i].keywords)}, 1)
        sum[i \in 0..Len(carrying)] ==
            IF i = 0 THEN 0
            ELSE sum[i - 1] + InteractionWeight(carrying[i].interaction_type,
                                                carrying[i].created_at, clock)
    IN  sum[Len(carrying)]

Names(list) == {list[i].name : i \in 1..Len(list)}

Keywords == UNION {Range(Feed[i].keywords) : i \in 1..Len(Feed)}

\* C7: in every processing order, a keyword whose net accumulated weight is
\* <= 0 is absent from the keyword list buildKeywordProfile returns.
C7_NetNonPositiveAbsent ==
    \A rows \in ProfileInputs, keyword \in Keywords :
        NetWeight(keyword, rows, now) <= 0
        => keyword \notin Names(buildKeywordProfile(rows, now).keywords)

ProfileNonEmpty(profile) ==
    profile.keywords # << >> \/ profile.sources # << >> \/ profile.categories # << >>

\* C9: when the profile is non-empty, the list get-recommendations
\* paginates is in totalScore-descending order, and candidates of equal
\* totalScore are in published-date-descending order.
C9_RankedByTotalScore ==
    \A rows \in ProfileInputs, byDate \in OrderByPublishedDesc(Ids, articles) :
        LET profile == buildKeywordProfile(rows, now)
            ranked == RankedList(profile, byDate, articles, view_count,
                                 interactions, now)
            total(i) ==
                scoreArticle(ArticleRow(ranked[i].id, articles, view_count,
                                        interactions, now), profile, now).totalScore
        IN  ProfileNonEmpty(profile)
            => \A i, j \in 1..Len(ranked) :
                  i < j => /\ total(i) >= total(j)
                           /\ total(i) = total(j)
                              => ranked[i].published_at >= ranked[j].published_at

\* C10: with the handle open, for every limit >= 0 and offset >= 0 the page
\* of getRecommendedArticles is the ranks [offset, offset + limit) of the
\* ranked list, so it never holds more than limit articles.
C10_PageIsSlice ==
    db = "open"
    => \A limit \in RequestLimits, offset \in RequestOffsets, ranked \in RankedLists :
          LET page == getRecommendedArticles(limit, offset, ranked)
          IN  /\ page = Slice(ranked, offset, offset + limit)
              /\ Len(page) <= limit
\* C11: with the handle open and no interaction recorded, for every limit
\* and offset getRecommendedArticles returns the positions
\* [offset, offset + limit) of all stored articles in published-date
\* descending order, whatever their scores are.
C11_FallbackPage ==
    (db = "open" /\ interactions = << >>)
    => \A limit \in RequestLimits, offset \in RequestOffsets, ranked \in RankedLists :
          /\ RowIds(ranked) \in OrderByPublishedDesc(Ids, articles)
          /\ RowIds(getRecommendedArticles(limit, offset, ranked))
                = RowIds(Slice(ranked, offset, offset + limit))

\* C12: getRecommendedArticles takes the recency fallback exactly when the
\* profile has no entry at all; a profile with a keyword, a source or a
\* category entry has its candidates scored and ranked.
C12_FallbackIffProfileEmpty ==
    \A rows \in ProfileInputs :
        TakesFallback(buildKeywordProfile(rows, now))
            <=> ~ProfileNonEmpty(buildKeywordProfile(rows, now))

\* C13: similarity is symmetric: for every two stored keyword lists the score
\* with the one as source and the other as target equals the score with the
\* roles exchanged.
C13_SimilaritySymmetric ==
    \A a \in Ids, b \in Ids :
        similarity(articles[a].keywords, articles[b].keywords)
            = similarity(articles[b].keywords, articles[a].keywords)

\* C14: every similarity score lies in [0, 1]; it is exactly 1 for a
\* non-empty keyword list compared with itself and 0 when either list is
\* empty.
C14_SimilarityRange ==
    \A a \in Ids, b \in Ids :
        LET A == articles[a].keywords
            B == articles[b].keywords
        IN  /\ similarity(A, B) >= 0
            /\ similarity(A, B) <= 1000
            /\ A # << >> => similarity(A, A) = 1000
            /\ (A = << >> \/ B = << >>) => similarity(A, B) = 0

\* 0.1 * the undecayed sum of the base weights of the article's interactions
InteractionBonus(id) ==
    LET sum[i \in 0..Len(interactions)] ==
            IF i = 0 THEN 0
            ELSE sum[i - 1] + (IF interactions[i].article_id = id
                               THEN BaseWeight(interactions[i].interaction_type)
                               ELSE 0)
    IN  sum[Len(interactions)] \div 10

\* C15: getSimilarArticles(articleId, limit) returns at most limit articles,
\* never the source, only articles of the source's category that share a
\* keyword with it, each once, in descending order of
\* similarity + 0.1 * (sum of the base weights of the article's
\* interactions); it returns nothing for an unknown source or one without
\* keywords.
C15_SimilarArticles ==
    \A id \in RequestIds, limit \in {0, 1, 2, DEFAULT_SIMILAR_LIMIT},
       byDate \in OrderByPublishedDesc(Ids, articles) :
        LET result == getSimilarArticles(id, limit, byDate, articles, view_count,
                                         interactions, now)
        IN  /\ Len(result) <= limit
            /\ (id \notin Ids \/ articles[id].keywords = << >>) => result = << >>
            /\ \A i \in 1..Len(result) :
                  /\ result[i].id \in Ids \ {id}
                  /\ articles[result[i].id].feed_category = articles[id].feed_category
                  /\ Range(articles[result[i].id].keywords)
                        \cap Range(articles[id].keywords) # {}
                  /\ result[i].combined_score
                        = similarity(articles[id].keywords,
                                     articles[result[i].id].keywords)
                          + InteractionBonus(result[i].id)
            /\ \A i, j \in 1..Len(result) :
                  i < j => /\ result[i].id # result[j].id
                           /\ result[i].combined_score >= result[j].combined_score

\* a similar-articles handler holds two articles for article 1, the first of
\* which is the less similar one, ahead through its interactions, while the
\* limit 1 cuts the list to that article
C15_Witness ==
    \E byDate \in OrderByPublishedDesc(Ids, articles) :
        LET result == getSimilarArticles(1, DEFAULT_SIMILAR_LIMIT, byDate, articles,
                                         view_count, interactions, now)
        IN  /\ Len(result) = 2
            /\ result[1].similarity_score < result[2].similarity_score
            /\ result[1].combined_score > result[2].combined_score
            /\ getSimilarArticles(1, 1, byDate, articles, view_count,
                                  interactions, now) = <<result[1]>>
            /\ \E i \in 1..Len(pending) :
                  /\ pending[i].op = "similar"
                  /\ pending[i].ids = RowIds(result)

\* C16: scoreArticle is a pure function of the article and the profile: a
\* second call with the same article and the same profile, whenever it is
\* made, yields the same component scores and the same totalScore.
C16_ScoreArticlePure ==
    [][\A id \in Ids, rows \in ProfileInputs :
          LET article == ArticleRow(id, articles, view_count, interactions, now)
              profile == buildKeywordProfile(rows, now)
          IN  scoreArticle(article, profile, now') = scoreArticle(article, profile, now)]_vars

\* C17: while storage is unavailable (the handle is not assigned) the profile
\* builder returns an empty profile instead of throwing, so that get-profile
\* answers it, and the recommendation function returns without throwing.
C17_EmptyOnStorageFailure ==
    db # "open"
    => /\ ~buildKeywordProfileThrows
       /\ GetProfileStatus = 200
       /\ ServeStatus(<< >>, FALSE) = 200

\* accumulate every weight, then keep the keywords with a positive total
FinalPassKeywords(rows, clock) ==
    {[name |-> keyword, weight |-> NetWeight(keyword, rows, clock)] :
        keyword \in {k \in Keywords : NetWeight(k, rows, clock) > 0}}

\* C19: for every sequence of interactions, removing a keyword as soon as
\* its running total is non-positive (as buildKeywordProfile does) and
\* filtering the non-positive totals in one final pass give the same
\* keyword map: the same keywords with the same weights.
C19_IncrementalEqualsFinalPass ==
    \A rows \in ProfileInputs :
        Range(ProcessInteractions(EmptyProfile, rows, now).keywords)
            = FinalPassKeywords(rows, now)

\* the rows whose created_at parses
WellFormed(rows) ==
    KeepIndices(rows, {i \in 1..Len(rows) : rows[i].created_at # InvalidDate}, 1)

\* the entries of a returned profile, whatever their order
Entries(profile) ==
    [keywords |-> Range(profile.keywords),
     sources |-> Range(profile.sources),
     categories |-> Range(profile.categories)]

\* C18: an interaction whose created_at cannot be parsed contributes zero to
\* every keyword, source and category weight and leaves the contributions of
\* the other interactions as they are: the profile built from the rows has
\* the entries of the profile built from the well-formed rows alone.
C18_MalformedDateContributesZero ==
    \A rows \in ProfileInputs :
        Entries(buildKeywordProfile(rows, now))
            = Entries(buildKeywordProfile(WellFormed(rows), now))

\* the sum of baseWeight * decay over the interactions with the articles
\* of the source, resp. of the category
WeightSum(field, name) ==
    LET sum[i \in 0..Len(interactions)] ==
            IF i = 0 THEN 0
            ELSE sum[i - 1]
                 + (IF articles[interactions[i].article_id][field] = name
                    THEN InteractionWeight(interactions[i].interaction_type,
                                           interactions[i].created_at, now)
                    ELSE 0)
    IN  sum[Len(interactions)]

DatesParse == \A i \in 1..Len(interactions) : interactions[i].created_at # InvalidDate

\* C20: for every interaction history with parseable dates and every order
\* of its rows, the weight of a source (resp. category) before the threshold
\* filter is the sum of baseWeight * decay over all interactions with
\* articles of that source (resp. category): each interaction counts once,
\* repeated interactions with one article all count, an unknown type adds
\* zero, and the total is never reset and may be negative.
C20_SourceCategorySums ==
    DatesParse
    => \A rows \in ProfileInputs :
          LET profile == ProcessInteractions(EmptyProfile, rows, now)
          IN  /\ \A i \in 1..Len(articles) :
                    /\ MapGet(profile.sources, articles[i].feed_title)
                          = WeightSum("feed_title", articles[i].feed_title)
                    /\ MapGet(profile.categories, articles[i].feed_category)
                          = WeightSum("feed_category", articles[i].feed_category)
              /\ Names(profile.sources)
                    = {articles[interactions[i].article_id].feed_title :
                          i \in 1..Len(interactions)}
              /\ Names(profile.categories)
                    = {articles[interactions[i].article_id].feed_category :
                          i \in 1..Len(interactions)}

\* a week after a thumbs_down and a click on the same article its source
\* carries the negative sum of both
C20_Witness ==
    /\ now = 1
    /\ Len(interactions) = 2
    /\ interactions[1].article_id = interactions[2].article_id
    /\ interactions[1].interaction_type = "thumbs_down"
    /\ interactions[2].interaction_type = "click"
    /\ DatesParse
    /\ \A rows \in ProfileInputs :
          MapGet(ProcessInteractions(EmptyProfile, rows, now).sources,
                 articles[interactions[1].article_id].feed_title) < 0
\* the scores scoreArticle returns in this state: one for every stored
\* article and every profile a build may return
Scored(id, rows) ==
    scoreArticle(ArticleRow(id, articles, view_count, interactions, now),
                 buildKeywordProfile(rows, now), now)

\* C21: the totalScore scoreArticle returns is exactly keywordScore +
\* sourceScore + categoryScore + recencyScore + interactionScore +
\* justInBoost + viewFatigueScore; nothing clamps it, so it may be negative.
C21_TotalIsSum ==
    \A id \in Ids, rows \in ProfileInputs :
        LET s == Scored(id, rows)
        IN  s.totalScore = s.keywordScore + s.sourceScore + s.categoryScore
                           + s.recencyScore + s.interactionScore
                           + s.justInBoost + s.viewFatigueScore

\* an article whose total is negative
C21_Witness ==
    \E id \in Ids, rows \in ProfileInputs : Scored(id, rows).totalScore < 0

\* the number of entries of an article's keyword list that the profile
\* holds with a weight other than zero
ProfileMatches(id, rows) ==
    LET keywords == articles[id].keywords
        profile == buildKeywordProfile(rows, now)
    IN  Cardinality({i \in 1..Len(keywords) :
            \E j \in 1..Len(profile.keywords) :
                /\ profile.keywords[j].name = keywords[i]
                /\ profile.keywords[j].weight # 0})

\* C22: justInBoost is JUST_IN_BOOST_WEIGHT * (1 - viewCount /
\* JUST_IN_MAX_VIEWS) when viewCount < JUST_IN_MAX_VIEWS and at least
\* JUST_IN_MIN_KEYWORD_MATCHES of the article's keywords have a nonzero
\* profile weight, and 0 otherwise; it lies in [0, JUST_IN_BOOST_WEIGHT].
C22_JustInBoost ==
    \A id \in Ids, rows \in ProfileInputs :
        LET boost == Scored(id, rows).justInBoost
            matches == ProfileMatches(id, rows)
        IN  /\ boost >= 0 /\ boost <= JUST_IN_BOOST_WEIGHT
            /\ view_count[id] >= JUST_IN_MAX_VIEWS => boost = 0
            /\ matches < JUST_IN_MIN_KEYWORD_MATCHES => boost = 0
            /\ (view_count[id] < JUST_IN_MAX_VIEWS
                 /\ matches >= JUST_IN_MIN_KEYWORD_MATCHES)
               => boost * JUST_IN_MAX_VIEWS
                    = JUST_IN_BOOST_WEIGHT * (JUST_IN_MAX_VIEWS - view_count[id])

\* under one profile: an article past the view cap that matches and gets no
\* boost, one never served that gets the full boost, and one that matches
\* too few keywords to get any
C22_Witness ==
    \E rows \in ProfileInputs :
        /\ \E id \in Ids :
              /\ view_count[id] > JUST_IN_MAX_VIEWS
              /\ ProfileMatches(id, rows) >= JUST_IN_MIN_KEYWORD_MATCHES
              /\ Scored(id, rows).justInBoost = 0
        /\ \E id \in Ids :
              /\ view_count[id] = 0
              /\ Scored(id, rows).justInBoost = JUST_IN_BOOST_WEIGHT
        /\ \E id \in Ids :
              /\ ProfileMatches(id, rows) < JUST_IN_MIN_KEYWORD_MATCHES
              /\ Scored(id, rows).justInBoost = 0

\* the joined rows with an empty keyword list in place of every keywords
\* text that does not parse
WithoutMalformed(rows) ==
    [i \in 1..Len(rows) |->
        IF rows[i].keywords = MalformedKeywords
        THEN [rows[i] EXCEPT !.keywords = << >>] ELSE rows[i]]

\* C23: malformed keyword data joined to an interaction skips only that
\* interaction's keyword contribution: the build completes, and the
\* keyword, source and category totals (the malformed interaction's own
\* source and category weight included) are what they would be had that
\* interaction carried an empty keyword list.
C23_MalformedKeywordsSkipped ==
    \A rows \in ProfileInputs :
        /\ ProcessInteractions(EmptyProfile, rows, now)
             = ProcessInteractions(EmptyProfile, WithoutMalformed(rows), now)
        /\ buildKeywordProfile(rows, now)
             = buildKeywordProfile(WithoutMalformed(rows), now)

\* a click on the article with the malformed keywords and one on its
\* neighbour of the same source: the source counts both, the keywords one
C23_Witness ==
    /\ articles[3].keywords = MalformedKeywords
    /\ \E rows \in ProfileInputs :
          LET profile == buildKeywordProfile(rows, now)
          IN  /\ Len(rows) = 2
              /\ rows[1].id = 3 /\ rows[2].id = 1
              /\ rows[1].interaction_type = "click" /\ rows[1].created_at = 0
              /\ rows[2].interaction_type = "click" /\ rows[2].created_at = 0
              /\ MapGet(profile.sources, "s1")
                   = 2 * InteractionWeight("click", 0, now)
              /\ MapGet(profile.keywords, "k1") = InteractionWeight("click", 0, now)

\* a string with its letters in upper case: two strings are equal ignoring
\* letter case when their images are equal
UpperCase(keyword) ==
    CASE keyword = "k1" -> "K1"
      [] keyword = "k2" -> "K2"
      [] keyword = "k3" -> "K3"
      [] OTHER -> keyword

\* the profile weight an article keyword earns when matching ignores case
WeightIgnoringCase(keyword, profile) ==
    LET list == profile.keywords
        sum[j \in 0..Len(list)] ==
            IF j = 0 THEN 0
            ELSE sum[j - 1] + (IF UpperCase(list[j].name) = UpperCase(keyword)
                               THEN list[j].weight ELSE 0)
    IN  sum[Len(list)]

Abs(weight) == IF weight < 0 THEN -weight ELSE weight

\* C25: for every stored created_at and published_at, earlier or later
\* than the clock, the decay factor of the interaction and the base
\* recency factor of the article lie in (0, 1]: no interaction weighs more
\* than its base weight in magnitude and no recencyScore exceeds
\* RECENCY_WEIGHT.
C25_FactorsInUnitInterval ==
    /\ \A k \in 1..Len(interactions) :
          /\ ExpDecay30(now - interactions[k].created_at) \in 1..1000
          /\ Abs(InteractionWeight(interactions[k].interaction_type,
                                    interactions[k].created_at, now))
               <= Abs(BaseWeight(interactions[k].interaction_type))
    /\ \A id \in Ids :
          /\ ExpDecay7(now - articles[id].published_at) \in 1..1000
          /\ \A rows \in ProfileInputs :
                Scored(id, rows).recencyScore <= RECENCY_WEIGHT

\* C26: lazy initialization is effective: a call of trackInteraction,
\* buildKeywordProfile, getRecommendedArticles or getSimilarArticles that
\* finds the handle unset has it open before its first query, so it answers
\* as the same call does on an open handle: the profile is built, a valid
\* interaction with a stored article is accepted, and the handler that
\* suspends on the recommendation or similarity query leaves the handle open.
C26_LazyInitEffective ==
    [][db = "unset"
       => /\ GetProfileStatus = 200
          /\ \A id \in Ids, type \in InteractionTypes :
                columns = ExtraColumns => PostInteractionStatus(id, type) = 200
          /\ Len(pending') > Len(pending) => db' = "open"]_vars

\* C27: the profile buildKeywordProfile returns does not depend on the
\* order in which storage returns the interaction rows: for a history with
\* parseable dates and a fixed clock, every order of the rows yields the
\* same keywords, sources and categories with the same weights.
C27_RowOrderIndependent ==
    DatesParse
    => \A rows \in ProfileInputs, other \in ProfileInputs :
          Entries(buildKeywordProfile(rows, now))
            = Entries(buildKeywordProfile(other, now))

\* C28: with the profile, the article's own interactions and the clock
\* fixed, totalScore is strictly decreasing in view_count: every further
\* serve strictly lowers justInBoost + viewFatigueScore, and
\* viewFatigueScore is 0 at zero views and strictly more negative with
\* each view.
C28_DecreasingInViews ==
    \A id \in Ids, rows \in ProfileInputs :
        LET profile == buildKeywordProfile(rows, now)
            row == ArticleRow(id, articles, view_count, interactions, now)
            scores(views) ==
                scoreArticle([row EXCEPT !.view_count = views], profile, now)
        IN  /\ scores(0).viewFatigueScore = 0
            /\ \A views \in 0..(MaxViewCount - 1) :
                  LET before == scores(views)
                      after == scores(views + 1)
                  IN  /\ after.totalScore < before.totalScore
                      /\ after.viewFatigueScore < before.viewFatigueScore
                      /\ after.justInBoost + after.viewFatigueScore
                           < before.justInBoost + before.viewFatigueScore

\* an article served past the view cap whose score fell below the score
\* of its never-served twin, in a state where both match the profile
C28_Witness ==
    \E rows \in ProfileInputs :
        /\ view_count[1] > JUST_IN_MAX_VIEWS
        /\ view_count[3] = 0
        /\ Scored(3, rows).justInBoost > 0
        /\ Scored(1, rows).keywordScore = Scored(3, rows).keywordScore
        /\ Scored(1, rows).justInBoost = 0
        /\ Scored(1, rows).viewFatigueScore < -1000
        /\ Scored(1, rows).totalScore - Scored(1, rows).interactionScore
             < Scored(3, rows).totalScore

\* the stored articles whose view_count the step changes
Changed == {a \in Ids : view_count'[a] # view_count[a]}

\* C29: view_count changes only by being served.  Every change is +1; a
\* step that changes some view_count is the response of a suspended
\* get-recommendations or get-similar handler, which changes exactly the
\* articles of the page it returns, or a get-article-by-id, which changes
\* exactly the requested article; list-articles, get-profile,
\* post-interaction and get-article-by-id for a missing id change none.
C29_ChangedOnlyByServing ==
    [][/\ \A a \in Ids : a \in DOMAIN view_count'
       /\ \A a \in Changed : view_count'[a] = view_count[a] + 1
       /\ Changed # {}
          => \/ \E i \in 1..Len(pending) :
                  /\ pending' = RemoveAt(pending, i)
                  /\ pending[i].op \in {"recommendations", "similar"}
                  /\ Changed = Range(pending[i].ids)
             \/ \E id \in Ids :
                  /\ GetArticleById(id)
                  /\ Changed = {id}
       /\ (\/ ListArticles
           \/ GetProfile
           \/ \E id \in RequestIds, type \in RequestTypes : PostInteraction(id, type)
           \/ \E id \in RequestIds \ Ids : GetArticleById(id))
          => Changed = {}]_vars

\* two articles served once each and a third never served, with an
\* interaction posted and every handler answered
C29_Witness ==
    /\ interactions # << >>
    /\ pending = << >>
    /\ \E a \in Ids, b \in Ids :
          /\ a # b
          /\ view_count[a] = 1 /\ served[a] = 1
          /\ view_count[b] = 1 /\ served[b] = 1
          /\ \A c \in Ids \ {a, b} : view_count[c] = 0

\* C30: referential integrity.  Every persisted interaction refers to a
\* stored article; a post-interaction for an article id that is not stored
\* reports failure and persists nothing; and no operation removes or
\* rewrites a stored article, with or without interactions.
C30_ReferentialIntegrity ==
    [][/\ \A k \in 1..Len(interactions') :
             interactions'[k].article_id \in DOMAIN articles'
       /\ \A id \in RequestIds \ Ids, type \in RequestTypes :
             PostInteraction(id, type)
             => /\ interactions' = interactions
                /\ PostInteractionStatus(id, type) \in {400, 500}
       /\ \A a \in Ids : a \in DOMAIN articles' /\ articles'[a] = articles[a]]_vars

\* interactions persisted for the only stored article, on a database that
\* accepts them, while every other id a client may name is missing
C30_Witness ==
    /\ Len(articles) = 1
    /\ Len(interactions) = MaxInteractions
    /\ \A k \in 1..Len(interactions) : interactions[k].article_id = 1
    /\ PostInteractionStatus(2, "click") = 500
    /\ PostInteractionStatus(1, "click") = 200

====
